---------------------------- MODULE Spec2Model ----------------------------
(***************************************************************************)
(* Model of the asset post-processing scripts                              *)
(*   src/.skills/tech-artist-generate-asset/remove-bg.py                   *)
(*   src/.skills/tech-artist-generate-asset/post-process.py                *)
(*                                                                         *)
(* An image is a record [mode, w, h, px]: px[y][x] is the pixel at row y,  *)
(* column x (numpy's data[y, x, :]), a tuple <<r, g, b, a>> in mode "RGBA" *)
(* and <<r, g, b>> in mode "RGB", every channel an 8-bit value.            *)
(*                                                                         *)
(* Spec    : the image functions of both scripts called on bounded inputs. *)
(* SpecRun : one run of either script's main(), from argv to exit code.    *)
(***************************************************************************)
EXTENDS Integers, Sequences, FiniteSets, TLC

VARIABLES
    image,          \* the input image (the decoded file at input_path)
    fn,             \* the function that has been called ("none" before a call)
    arg_threshold,  \* the threshold argument of the call (NoArg: not passed)
    arg_pixels,     \* the pixels argument of erode_alpha_channel (NoArg: none)
    result,         \* the image the call returned
    second,         \* remove_white_background applied to its own result
    saved,          \* saved[use_replicate]: what remove_background wrote
    script,         \* the script a run executes
    argv,           \* sys.argv of the run, argv[1] being the script name
    input_file,     \* the file at input_path: Missing, Corrupt or an image
    input_size,     \* os.path.getsize(input_path)
    pc,             \* the position of the run in main()
    threshold_var,  \* main's local variable threshold in remove-bg.py
    output_file,    \* the file at output_path
    output_size,    \* os.path.getsize(output_path) after the save
    stdout,         \* the kinds of message printed so far
    returned,       \* the value post_process_asset returned
    caught,         \* whether main's except clause has handled an exception
    uncaught,       \* whether an exception propagated out of main()
    exit_code       \* the exit status of the process (Running until it ends)

fnVars  == <<image, fn, arg_threshold, arg_pixels, result, second, saved>>
runVars == <<script, argv, input_file, input_size, pc, threshold_var,
             output_file, output_size, stdout, returned, caught, uncaught,
             exit_code>>
vars    == <<fnVars, runVars>>

---------------------------------------------------------------------------
(* Bounds of the model *)

\* Largest number of pixels (width * height) of the arbitrary input images.
MaxPixels == 4
\* Side of the canvas that holds the solid-square images.
SqSize == 5
\* Largest erosion margin passed to erode_alpha_channel.
MaxErode == 2
\* Largest number of pixels of the image files the runs of main() read.
MaxFilePixels == 1

---------------------------------------------------------------------------
(* Images *)

NoArg == 0 - 1

NoImage == [mode |-> "none", w |-> 0, h |-> 0, px |-> <<>>]

\* What saved holds for a value of use_replicate not yet called with.
Unsaved == [threshold |-> NoArg, file |-> NoImage]

\* Pixel values the inputs are drawn from: opaque white, a half-transparent
\* mid grey whose channels all equal the threshold 128, an opaque cyan with
\* one dark channel and a high average, and a transparent dark pixel.
PixelVals ==
    { <<255, 255, 255, 255>>,
      <<128, 128, 128, 200>>,
      <<0, 255, 255, 255>>,
      <<10, 20, 30, 0>> }

RGBVals == { <<p[1], p[2], p[3]>> : p \in PixelVals }

\* The threshold values calls are made with (the claimed range is 0..255).
Thresholds == {0, 128, 240, 255}

\* The width/height pairs of the images of at most n pixels.
Shapes(n) == { d \in (1..n) \X (1..n) : d[1] * d[2] <= n }

ImagesOf(mode, vals, n) ==
    UNION { { [mode |-> mode, w |-> d[1], h |-> d[2], px |-> px] :
                px \in [1..d[2] -> [1..d[1] -> vals]] } : d \in Shapes(n) }

\* Arbitrary small images in both modes.
ArbImages ==
    ImagesOf("RGBA", PixelVals, MaxPixels) \cup ImagesOf("RGB", RGBVals, MaxPixels)

\* The image whose alpha is 255 exactly on the square with top-left corner
\* (x0, y0) and side s, and 0 elsewhere, on an SqSize x SqSize canvas.
SquareImage(x0, y0, s) ==
    [mode |-> "RGBA", w |-> SqSize, h |-> SqSize,
     px |-> [y \in 1..SqSize |-> [x \in 1..SqSize |->
                IF x >= x0 /\ x < x0 + s /\ y >= y0 /\ y < y0 + s
                THEN <<200, 100, 50, 255>> ELSE <<255, 255, 255, 0>>]]]

SquareImages ==
    { SquareImage(x0, y0, s) :
        <<x0, y0, s>> \in { t \in (1..SqSize) \X (1..SqSize) \X (1..SqSize) :
                              t[1] + t[3] - 1 <= SqSize /\ t[2] + t[3] - 1 <= SqSize } }

Images == ArbImages \cup SquareImages

---------------------------------------------------------------------------
(* remove-bg.py *)

\* image.convert('RGBA'): an RGB pixel becomes opaque.
convert_RGBA(img) ==
    IF img.mode = "RGBA" THEN img
    ELSE [img EXCEPT !.mode = "RGBA",
                     !.px = [y \in 1..img.h |-> [x \in 1..img.w |->
                                <<img.px[y][x][1], img.px[y][x][2], img.px[y][x][3], 255>>]]]

\* Variants of mask: every channel must exceed the threshold; one channel
\* exceeding it is enough.
mask_all_exceed(p, threshold) ==
    p[1] > threshold /\ p[2] > threshold /\ p[3] > threshold
mask_any_exceeds(p, threshold) ==
    p[1] > threshold \/ p[2] > threshold \/ p[3] > threshold

\* brightness > threshold, with brightness = (r + g + b) / 3.0 computed in
\* double precision: the sum is an exact integer of at most 765, so the
\* comparison with an integer threshold is r + g + b > 3 * threshold.
mask(p, threshold) == p[1] + p[2] + p[3] > 3 * threshold

\* Variant of remove_white_background: a masked pixel is cleared entirely.
remove_white_background_clear(img, threshold) ==
    LET data == convert_RGBA(img)
    IN  [data EXCEPT !.px = [y \in 1..data.h |-> [x \in 1..data.w |->
            IF mask(data.px[y][x], threshold)
            THEN <<0, 0, 0, 0>>
            ELSE data.px[y][x]]]]

\* a[mask] = 0 on the alpha channel of the RGBA image, the rest as it is.
remove_white_background(img, threshold) ==
    LET data == convert_RGBA(img)
    IN  [data EXCEPT !.px = [y \in 1..data.h |-> [x \in 1..data.w |->
            IF mask(data.px[y][x], threshold)
            THEN <<data.px[y][x][1], data.px[y][x][2], data.px[y][x][3], 0>>
            ELSE data.px[y][x]]]]

\* The default value of remove_white_background's threshold parameter.
DefaultThreshold == 240

\* No remote call is made: the file is opened and the threshold method is
\* applied with its default threshold.
remove_background_replicate(img) == remove_white_background(img, DefaultThreshold)

\* The image remove_background hands to image.save (PNG is lossless).
remove_background(img, threshold, use_replicate) ==
    IF use_replicate THEN remove_background_replicate(img)
    ELSE remove_white_background(img, threshold)

---------------------------------------------------------------------------
(* post-process.py *)

Clamp(i, n) == IF i < 1 THEN 1 ELSE IF i > n THEN n ELSE i
SetMin(S) == CHOOSE m \in S : \A v \in S : m <= v

SetMax(S) == CHOOSE m \in S : \A v \in S : m >= v

\* Variants of MinFilter3: the maximum of the window; the minimum with the
\* image extended by transparent pixels instead of copies of its border.
MaxFilter3(al, w, h) ==
    [y \in 1..h |-> [x \in 1..w |->
        SetMax({ al[Clamp(y + dy, h)][Clamp(x + dx, w)] :
                    <<dx, dy>> \in (-1..1) \X (-1..1) })]]
MinFilter3_zero_border(al, w, h) ==
    [y \in 1..h |-> [x \in 1..w |->
        SetMin({ IF y + dy \in 1..h /\ x + dx \in 1..w THEN al[y + dy][x + dx] ELSE 0 :
                    <<dx, dy>> \in (-1..1) \X (-1..1) })]]

\* alpha.filter(ImageFilter.MinFilter(3)) on a single-channel image al[y][x]
\* of width w and height h: the minimum over the 3x3 window around each
\* pixel, the image being extended by one pixel on every side with copies of
\* its border pixels before the window is applied.
MinFilter3(al, w, h) ==
    [y \in 1..h |-> [x \in 1..w |->
        SetMin({ al[Clamp(y + dy, h)][Clamp(x + dx, w)] :
                    <<dx, dy>> \in (-1..1) \X (-1..1) })]]

\* for _ in range(pixels): alpha = alpha.filter(ImageFilter.MinFilter(3))
RECURSIVE ErodeLoop(_, _, _, _)
ErodeLoop(al, w, h, pixels) ==
    IF pixels <= 0 THEN al ELSE ErodeLoop(MinFilter3(al, w, h), w, h, pixels - 1)

\* Variant of merge_RGBA: the bands are merged in the order b, g, r.
merge_BGRA(img, al) ==
    [img EXCEPT !.px = [y \in 1..img.h |-> [x \in 1..img.w |->
        <<img.px[y][x][3], img.px[y][x][2], img.px[y][x][1], al[y][x]>>]]]

\* Image.merge('RGBA', (r, g, b, alpha))
merge_RGBA(img, al) ==
    [img EXCEPT !.px = [y \in 1..img.h |-> [x \in 1..img.w |->
        <<img.px[y][x][1], img.px[y][x][2], img.px[y][x][3], al[y][x]>>]]]

erode_alpha_channel(img, pixels) ==
    LET rgba  == convert_RGBA(img)
        alpha == [y \in 1..rgba.h |-> [x \in 1..rgba.w |-> rgba.px[y][x][4]]]
    IN  merge_RGBA(rgba, ErodeLoop(alpha, rgba.w, rgba.h, pixels))

\* Variant of remove_background_simple: falls back to the threshold method.
remove_background_simple_threshold(img) ==
    remove_white_background(img, DefaultThreshold)

\* Only the mode is changed: no pixel is made transparent.
remove_background_simple(img) == convert_RGBA(img)

\* optimize_png(image, compression_level): the image in mode RGBA and the level.
optimize_png(img, compression_level) ==
    [image |-> convert_RGBA(img), compression |-> compression_level]

\* The 8-bit blend of Image.paste with a mask: in1 where the mask is 0, in2
\* where it is 255, the rounded weighted mean between.
Blend(m, in1, in2) ==
    LET t == in1 * (255 - m) + in2 * m + 128
    IN  (t + (t \div 256)) \div 256

\* compress_jpeg(image, quality): an RGBA image is pasted on a white RGB
\* canvas with its alpha as mask; the quality is passed through.
compress_jpeg(img, quality) ==
    [image |->
        IF img.mode = "RGBA"
        THEN [img EXCEPT !.mode = "RGB",
                         !.px = [y \in 1..img.h |-> [x \in 1..img.w |->
                            <<Blend(img.px[y][x][4], 255, img.px[y][x][1]),
                              Blend(img.px[y][x][4], 255, img.px[y][x][2]),
                              Blend(img.px[y][x][4], 255, img.px[y][x][3])>>]]]
        ELSE img,
     quality |-> quality]

---------------------------------------------------------------------------
(* One run of a script: main() of remove-bg.py and of post-process.py *)

Scripts == {"remove-bg.py", "post-process.py"}

Missing == [mode |-> "missing", w |-> 0, h |-> 0, px |-> <<>>]
Corrupt == [mode |-> "corrupt", w |-> 0, h |-> 0, px |-> <<>>]

\* The image files a run may find at input_path.
FileImages ==
    ImagesOf("RGBA", PixelVals, MaxFilePixels)
        \cup ImagesOf("RGB", RGBVals, MaxFilePixels)

NoFile == [format |-> "none", level |-> 0, image |-> NoImage]
\* What a failed save may leave at output_path besides nothing.
PartialFile == [format |-> "partial", level |-> 0, image |-> NoImage]

\* The threshold arguments of the command line, as character sequences.
ThresholdArgs ==
    { <<"2", "4", "0">>, <<"1", "2", "8">>, <<"-", "1">>,
      <<"a", "b", "c">>, <<"2", ".", "5">> }

AssetTypes ==
    { "arrow-icon", "lock-overlay", "currency-icon", "piggy-bank", "win-icon",
      "logo", "block-texture", "background", "sprite" }

\* File sizes in bytes, on both sides of every target.
InputSizes == { 50 * 1024, 100 * 1024 + 1, 150 * 1024 + 1 }
OutputSizes ==
    { 1024, 20 * 1024 + 1, 50 * 1024, 50 * 1024 + 1, 100 * 1024 + 1, 150 * 1024 + 1 }

Digit(ch) ==
    CASE ch = "0" -> 0 [] ch = "1" -> 1 [] ch = "2" -> 2 [] ch = "3" -> 3
      [] ch = "4" -> 4 [] ch = "5" -> 5 [] ch = "6" -> 6 [] ch = "7" -> 7
      [] ch = "8" -> 8 [] ch = "9" -> 9 [] OTHER -> NoArg

RECURSIVE DigitsValue(_, _)
DigitsValue(cs, acc) ==
    IF cs = <<>> THEN acc ELSE DigitsValue(Tail(cs), 10 * acc + Digit(Head(cs)))

\* int(s) for a string of an optional sign and decimal digits: ok is FALSE
\* where int raises ValueError.
ParseInt(cs) ==
    LET signed == cs # <<>> /\ Head(cs) \in {"-", "+"}
        digits == IF signed THEN Tail(cs) ELSE cs
        ok     == digits # <<>> /\ \A i \in 1..Len(digits) : Digit(digits[i]) # NoArg
    IN  [ok |-> ok,
         value |-> IF ~ok THEN 0
                   ELSE IF signed /\ Head(cs) = "-" THEN 0 - DigitsValue(digits, 0)
                   ELSE DigitsValue(digits, 0)]

\* asset_type in [...]: the asset types saved as PNG with transparency.
needs_transparency(asset_type) ==
    asset_type \in { "arrow-icon", "lock-overlay", "currency-icon", "piggy-bank",
                     "win-icon", "logo" }

\* size_targets.get(asset_type, 100 * 1024) of the JPEG branch.
jpeg_target_size(asset_type) ==
    CASE asset_type = "block-texture" -> 150 * 1024
      [] asset_type = "background" -> 100 * 1024
      [] OTHER -> 100 * 1024

\* size_targets.get(asset_type, 50 * 1024) of the final validation.
target_size(asset_type) ==
    CASE asset_type = "block-texture" -> 150 * 1024
      [] asset_type = "background" -> 100 * 1024
      [] asset_type = "lock-overlay" -> 50 * 1024
      [] asset_type \in {"arrow-icon", "currency-icon", "piggy-bank", "win-icon", "logo"}
            -> 20 * 1024
      [] OTHER -> 50 * 1024

\* The file post_process_asset hands to image.save.
processed_file(img, asset_type, in_size) ==
    IF needs_transparency(asset_type)
    THEN LET o == optimize_png(erode_alpha_channel(remove_background_simple(img), 1), 9)
         IN  [format |-> "PNG", level |-> o.compression, image |-> o.image]
    ELSE LET c == compress_jpeg(img, IF in_size > jpeg_target_size(asset_type)
                                     THEN 70 ELSE 85)
         IN  [format |-> "JPEG", level |-> c.quality, image |-> c.image]

FnIdle ==
    /\ image = NoImage
    /\ fn = "none"
    /\ arg_threshold = NoArg
    /\ arg_pixels = NoArg
    /\ result = NoImage
    /\ second = NoImage
    /\ saved = [f \in BOOLEAN |-> Unsaved]

InitRun ==
    /\ FnIdle
    /\ script \in Scripts
    /\ \/ /\ script = "remove-bg.py"
          /\ argv \in { <<"remove-bg.py">>,
                        <<"remove-bg.py", "in.png">>,
                        <<"remove-bg.py", "in.png", "out.png">> }
                      \cup { <<"remove-bg.py", "in.png", "out.png", t>> :
                                t \in ThresholdArgs }
       \/ /\ script = "post-process.py"
          /\ argv \in { <<"post-process.py", "in.png", "out.png">>,
                        <<"post-process.py", "in.png", "out.png", "logo", "extra">> }
                      \cup { <<"post-process.py", "in.png", "out.png", t>> :
                                t \in AssetTypes }
    /\ input_file \in {Missing, Corrupt} \cup FileImages
    /\ input_size \in IF input_file = Missing THEN {0} ELSE InputSizes
    /\ pc = "start"
    /\ threshold_var = NoArg
    /\ output_file = NoFile
    /\ output_size = 0
    /\ stdout = {}
    /\ returned = "none"
    /\ caught = FALSE
    /\ uncaught = FALSE
    /\ exit_code = NoArg

\* sys.exit(code), or the interpreter ending after main() returned or raised.
Exit(code) == pc' = "exited" /\ exit_code' = code

\* except Exception as error: print the failure, sys.exit(1)
Except == caught' = TRUE /\ stdout' = stdout \cup {"failed"} /\ Exit(1)

\* remove-bg.py main: if len(sys.argv) < 3: usage, sys.exit(1)
BgCheckArgs ==
    /\ script = "remove-bg.py" /\ pc = "start"
    /\ IF Len(argv) < 3
       THEN stdout' = stdout \cup {"usage"} /\ Exit(1)
       ELSE pc' = "parse_threshold" /\ UNCHANGED <<stdout, exit_code>>
    /\ UNCHANGED <<fnVars, script, argv, input_file, input_size, threshold_var,
                   output_file, output_size, returned, caught, uncaught>>

\* threshold = int(sys.argv[3]) if len(sys.argv) > 3 else 240, outside the
\* try block: a ValueError leaves main() and ends the process with a
\* traceback and status 1.
BgParseThreshold ==
    /\ script = "remove-bg.py" /\ pc = "parse_threshold"
    /\ IF Len(argv) > 3
       THEN IF ParseInt(argv[4]).ok
            THEN /\ threshold_var' = ParseInt(argv[4]).value
                 /\ pc' = "check_exists"
                 /\ UNCHANGED <<stdout, uncaught, exit_code>>
            ELSE /\ uncaught' = TRUE
                 /\ stdout' = stdout \cup {"traceback"}
                 /\ Exit(1)
                 /\ UNCHANGED threshold_var
       ELSE /\ threshold_var' = 240
            /\ pc' = "check_exists"
            /\ UNCHANGED <<stdout, uncaught, exit_code>>
    /\ UNCHANGED <<fnVars, script, argv, input_file, input_size, output_file,
                   output_size, returned, caught>>

\* if not os.path.exists(input_path): print the error, sys.exit(1)
BgCheckExists ==
    /\ script = "remove-bg.py" /\ pc = "check_exists"
    /\ IF input_file = Missing
       THEN stdout' = stdout \cup {"not_found"} /\ Exit(1)
       ELSE pc' = "try" /\ UNCHANGED <<stdout, exit_code>>
    /\ UNCHANGED <<fnVars, script, argv, input_file, input_size, threshold_var,
                   output_file, output_size, returned, caught, uncaught>>

\* try: remove_background(input_path, output_path, threshold); print complete
\* except Exception: print the failure, sys.exit(1)
BgTry ==
    /\ script = "remove-bg.py" /\ pc = "try"
    /\ \/ \* Image.open raises on a file that is no image
          /\ input_file = Corrupt
          /\ Except
          /\ UNCHANGED <<output_file, output_size>>
       \/ \* image.save raises
          /\ input_file # Corrupt
          /\ output_file' \in {NoFile, PartialFile}
          /\ Except
          /\ UNCHANGED output_size
       \/ \* the image is saved and main() returns
          /\ input_file # Corrupt
          /\ output_file' = [format |-> "PNG", level |-> 9,
                             image |-> remove_background(input_file, threshold_var, FALSE)]
          /\ output_size' \in OutputSizes
          /\ stdout' = stdout \cup {"complete"}
          /\ Exit(0)
          /\ UNCHANGED caught
    /\ UNCHANGED <<fnVars, script, argv, input_file, input_size, threshold_var,
                   returned, uncaught>>

\* post-process.py main: if len(sys.argv) != 4: usage, sys.exit(1)
PpCheckArgs ==
    /\ script = "post-process.py" /\ pc = "start"
    /\ IF Len(argv) # 4
       THEN stdout' = stdout \cup {"usage"} /\ Exit(1)
       ELSE pc' = "try" /\ UNCHANGED <<stdout, exit_code>>
    /\ UNCHANGED <<fnVars, script, argv, input_file, input_size, threshold_var,
                   output_file, output_size, returned, caught, uncaught>>

\* post_process_asset up to the save (lines 88-134), inside main's try
PpProcessAndSave ==
    /\ script = "post-process.py" /\ pc = "try"
    /\ \/ \* Image.open raises: no file, or a file that is no image
          /\ input_file \in {Missing, Corrupt}
          /\ Except
          /\ UNCHANGED <<output_file, output_size>>
       \/ \* image.save raises
          /\ input_file \notin {Missing, Corrupt}
          /\ output_file' \in {NoFile, PartialFile}
          /\ Except
          /\ UNCHANGED output_size
       \/ \* the image is saved
          /\ input_file \notin {Missing, Corrupt}
          /\ output_file' = processed_file(input_file, argv[4], input_size)
          /\ output_size' \in OutputSizes
          /\ pc' = "validate"
          /\ UNCHANGED <<stdout, caught, exit_code>>
    /\ UNCHANGED <<fnVars, script, argv, input_file, input_size, threshold_var,
                   returned, uncaught>>

\* Variant of PpValidateSize: an output over its target is a failure of the
\* run, and the output is removed.
PpValidateSizeStrict ==
    /\ script = "post-process.py" /\ pc = "validate"
    /\ IF output_size > target_size(argv[4])
       THEN /\ output_file' = NoFile
            /\ Except
            /\ UNCHANGED returned
       ELSE /\ stdout' = stdout \cup {"size_report", "within_budget", "complete"}
            /\ returned' = argv[3]
            /\ Exit(0)
            /\ UNCHANGED <<caught, output_file>>
    /\ UNCHANGED <<fnVars, script, argv, input_file, input_size, threshold_var,
                   output_size, uncaught>>

\* post_process_asset from the size report to its return (lines 136-159):
\* the sizes are printed, then the warning when output_size > target_size and
\* the confirmation otherwise, and output_path is returned; main prints the
\* completion and the process ends.
PpValidateSize ==
    /\ script = "post-process.py" /\ pc = "validate"
    /\ stdout' = stdout \cup
          { "size_report",
            IF output_size > target_size(argv[4]) THEN "warning" ELSE "within_budget",
            "complete" }
    /\ returned' = argv[3]
    /\ Exit(0)
    /\ UNCHANGED <<fnVars, script, argv, input_file, input_size, threshold_var,
                   output_file, output_size, caught, uncaught>>

NextRun ==
    \/ BgCheckArgs
    \/ BgParseThreshold
    \/ BgCheckExists
    \/ BgTry
    \/ PpCheckArgs
    \/ PpProcessAndSave
    \/ PpValidateSize

SpecRun == InitRun /\ [][NextRun]_vars

---------------------------------------------------------------------------
(* Spec: the image functions called on bounded inputs *)

\* The values the variables of a run hold while no run is modelled.
RunIdle ==
    /\ script = "none"
    /\ argv = <<>>
    /\ input_file = NoImage
    /\ input_size = 0
    /\ pc = "idle"
    /\ threshold_var = NoArg
    /\ output_file = NoFile
    /\ output_size = 0
    /\ stdout = {}
    /\ returned = "none"
    /\ caught = FALSE
    /\ uncaught = FALSE
    /\ exit_code = NoArg

Init ==
    /\ image \in Images
    /\ fn = "none"
    /\ arg_threshold = NoArg
    /\ arg_pixels = NoArg
    /\ result = NoImage
    /\ second = NoImage
    /\ saved = [f \in BOOLEAN |-> Unsaved]
    /\ RunIdle

\* result = remove_white_background(image, t)
CallRemoveWhiteBackground ==
    /\ fn = "none"
    /\ \E t \in Thresholds :
          /\ arg_threshold' = t
          /\ result' = remove_white_background(image, t)
    /\ fn' = "remove_white_background"
    /\ UNCHANGED <<image, arg_pixels, second, saved, runVars>>

\* second = remove_white_background(result, t), the same threshold again
ReapplyRemoveWhiteBackground ==
    /\ fn = "remove_white_background"
    /\ second = NoImage
    /\ second' = remove_white_background(result, arg_threshold)
    /\ UNCHANGED <<image, fn, arg_threshold, arg_pixels, result, saved, runVars>>

\* result = remove_background_replicate(input_path)
CallRemoveBackgroundReplicate ==
    /\ fn = "none"
    /\ fn' = "remove_background_replicate"
    /\ result' = remove_background_replicate(image)
    /\ UNCHANGED <<image, arg_threshold, arg_pixels, second, saved, runVars>>

\* remove_background(input_path, output_path, t, f), each value of
\* use_replicate writing an output file of its own
CallRemoveBackground ==
    /\ fn \in {"none", "remove_background"}
    /\ \E t \in Thresholds, f \in BOOLEAN :
          /\ saved[f] = Unsaved
          /\ saved' = [saved EXCEPT ![f] =
                          [threshold |-> t, file |-> remove_background(image, t, f)]]
    /\ fn' = "remove_background"
    /\ UNCHANGED <<image, arg_threshold, arg_pixels, result, second, runVars>>

\* result = remove_background_simple(image)
CallRemoveBackgroundSimple ==
    /\ fn = "none"
    /\ fn' = "remove_background_simple"
    /\ result' = remove_background_simple(image)
    /\ UNCHANGED <<image, arg_threshold, arg_pixels, second, saved, runVars>>

\* result = erode_alpha_channel(image, k)
CallErodeAlphaChannel ==
    /\ fn = "none"
    /\ \E k \in 0..MaxErode :
          /\ arg_pixels' = k
          /\ result' = erode_alpha_channel(image, k)
    /\ fn' = "erode_alpha_channel"
    /\ UNCHANGED <<image, arg_threshold, second, saved, runVars>>

Next ==
    \/ CallRemoveWhiteBackground
    \/ ReapplyRemoveWhiteBackground
    \/ CallRemoveBackgroundReplicate
    \/ CallRemoveBackground
    \/ CallRemoveBackgroundSimple
    \/ CallErodeAlphaChannel

Spec == Init /\ [][Next]_vars

---------------------------------------------------------------------------
(* Properties of the image functions, checked under Spec *)

\* The input as the functions see it after image.convert('RGBA').
In == convert_RGBA(image)

Coords(img) == (1..img.w) \X (1..img.h)
At(img, c) == img.px[c[2]][c[1]]

AllAtLeast(p, t) == p[1] >= t /\ p[2] >= t /\ p[3] >= t
SomeAbove(p, t) == p[1] > t \/ p[2] > t \/ p[3] > t
SomeBelow(p, t) == p[1] < t \/ p[2] < t \/ p[3] < t

Whitened == fn = "remove_white_background"

\* C1 as stated: after remove_white_background(image, threshold), every pixel
\* whose R, G and B are all >= threshold has alpha 0 in the output.
C1_AsStated ==
    Whitened =>
        \A c \in Coords(In) :
            AllAtLeast(At(In, c), arg_threshold) => At(result, c)[4] = 0

\* C1 amended: after remove_white_background(image, threshold), every pixel
\* whose R, G and B are all >= threshold and not all equal to it (at least
\* one channel is > threshold) has alpha 0 in the output.
C1_AllAtLeastSomeAbove ==
    Whitened =>
        \A c \in Coords(In) :
            (AllAtLeast(At(In, c), arg_threshold) /\ SomeAbove(At(In, c), arg_threshold))
                => At(result, c)[4] = 0

\* A visible pixel with one channel equal to the threshold and the others
\* above it was made transparent.
C1_Witness ==
    /\ Whitened
    /\ \E c \in Coords(In) :
          /\ AllAtLeast(At(In, c), arg_threshold)
          /\ SomeAbove(At(In, c), arg_threshold)
          /\ ~ mask_all_exceed(At(In, c), arg_threshold)
          /\ At(In, c)[4] > 0
          /\ At(result, c)[4] = 0

\* C2 as stated: after remove_white_background(image, threshold), every pixel
\* with at least one of R, G, B < threshold has its input alpha in the output.
C2_AsStated ==
    Whitened =>
        \A c \in Coords(In) :
            SomeBelow(At(In, c), arg_threshold) => At(result, c)[4] = At(In, c)[4]

\* C2 amended: after remove_white_background(image, threshold), every pixel
\* with at least one of R, G, B < threshold and an average (R + G + B) / 3
\* that is <= threshold has its input alpha in the output.
C2_BelowAndNotBright ==
    Whitened =>
        \A c \in Coords(In) :
            ( /\ SomeBelow(At(In, c), arg_threshold)
              /\ At(In, c)[1] + At(In, c)[2] + At(In, c)[3] <= 3 * arg_threshold )
                => At(result, c)[4] = At(In, c)[4]

\* A visible pixel with one channel below and another above the threshold,
\* its average not above it, kept its alpha.
C2_Witness ==
    /\ Whitened
    /\ \E c \in Coords(In) :
          /\ SomeBelow(At(In, c), arg_threshold)
          /\ SomeAbove(At(In, c), arg_threshold)
          /\ At(In, c)[1] + At(In, c)[2] + At(In, c)[3] <= 3 * arg_threshold
          /\ At(In, c)[4] > 0
          /\ At(result, c)[4] = At(In, c)[4]

\* C10: for an RGBA input, remove_white_background keeps the dimensions and
\* every pixel's R, G and B, leaves each alpha as it was or sets it to 0, and
\* applied a second time with the same threshold returns the same image.
C10_OnlyAlphaToZeroIdempotent ==
    (Whitened /\ image.mode = "RGBA") =>
        /\ result.mode = "RGBA" /\ result.w = image.w /\ result.h = image.h
        /\ DOMAIN result.px = 1..image.h
        /\ \A y \in 1..image.h : DOMAIN result.px[y] = 1..image.w
        /\ \A c \in Coords(image) :
              /\ At(result, c)[1] = At(image, c)[1]
              /\ At(result, c)[2] = At(image, c)[2]
              /\ At(result, c)[3] = At(image, c)[3]
              /\ At(result, c)[4] \in {At(image, c)[4], 0}
        /\ second # NoImage => second = result

\* The function was applied twice to an RGBA image of which it made a
\* visible pixel transparent and left another visible.
C10_Witness ==
    /\ Whitened /\ image.mode = "RGBA" /\ second # NoImage
    /\ \E c \in Coords(image) : At(image, c)[4] > 0 /\ At(result, c)[4] = 0
    /\ \E c \in Coords(image) : At(result, c)[4] > 0

Eroded == fn = "erode_alpha_channel"

\* C3: erode_alpha_channel(image, K) never raises a pixel's alpha, so the
\* pixels with alpha > 0 after erosion are among those before it.
C3_ErosionNeverIncreasesAlpha ==
    Eroded =>
        /\ \A c \in Coords(In) : At(result, c)[4] <= At(In, c)[4]
        /\ { c \in Coords(In) : At(result, c)[4] > 0 }
              \subseteq { c \in Coords(In) : At(In, c)[4] > 0 }

\* An erosion by K >= 1 lowered one pixel's alpha and left another visible.
C3_Witness ==
    /\ Eroded /\ arg_pixels >= 1
    /\ \E c \in Coords(In) : At(result, c)[4] < At(In, c)[4]
    /\ \E c \in Coords(In) : At(result, c)[4] > 0

\* C5: for an RGBA input, erode_alpha_channel keeps the dimensions and the
\* R, G and B of every pixel; only alpha may differ.
C5_ErosionKeepsColour ==
    (Eroded /\ image.mode = "RGBA") =>
        /\ result.mode = "RGBA" /\ result.w = image.w /\ result.h = image.h
        /\ DOMAIN result.px = 1..image.h
        /\ \A y \in 1..image.h : DOMAIN result.px[y] = 1..image.w
        /\ \A c \in Coords(image) :
              /\ At(result, c)[1] = At(image, c)[1]
              /\ At(result, c)[2] = At(image, c)[2]
              /\ At(result, c)[3] = At(image, c)[3]

\* An erosion by K >= 1 changed the alpha of a pixel whose R and B differ.
C5_Witness ==
    /\ Eroded /\ image.mode = "RGBA" /\ arg_pixels >= 1
    /\ \E c \in Coords(image) :
          /\ At(result, c)[4] # At(image, c)[4]
          /\ At(image, c)[1] # At(image, c)[3]

\* img's alpha is 255 exactly on the columns l..r of the rows t..b, and 0
\* elsewhere (nowhere 255 when l > r or t > b).
OpaqueExactlyOn(img, l, r, t, b) ==
    \A c \in Coords(img) :
        At(img, c)[4] = IF c[1] \in l..r /\ c[2] \in t..b THEN 255 ELSE 0

\* The solid squares of img: <<x0, y0, s>> such that img's alpha is 255
\* exactly on the square of side s whose top-left corner is (x0, y0).
SolidSquares(img) ==
    { q \in (1..img.w) \X (1..img.h) \X (1..img.w) :
        /\ q[1] + q[3] - 1 <= img.w
        /\ q[2] + q[3] - 1 <= img.h
        /\ OpaqueExactlyOn(img, q[1], q[1] + q[3] - 1, q[2], q[2] + q[3] - 1) }

\* C4 as stated: eroding a solid square by K moves each of its four edges
\* inward by exactly K pixels, wherever the square lies in the image.
C4_AsStated ==
    (Eroded /\ image.mode = "RGBA") =>
        \A q \in SolidSquares(image) :
            OpaqueExactlyOn(result,
                            q[1] + arg_pixels, q[1] + q[3] - 1 - arg_pixels,
                            q[2] + arg_pixels, q[2] + q[3] - 1 - arg_pixels)

\* How far K passes move an edge at position e inward: K pixels, or none
\* when the edge lies on the image border.
Inward(e, border, K) == IF e = border THEN 0 ELSE K

\* C4 amended: eroding a solid square by K moves each edge of the square
\* that does not lie on the image border inward by exactly K pixels; an edge
\* that lies on the image border stays where it is. The result is opaque
\* exactly on the remaining rectangle (nowhere when it is empty).
C4_EdgesOffTheBorderMoveByK ==
    (Eroded /\ image.mode = "RGBA") =>
        \A q \in SolidSquares(image) :
            OpaqueExactlyOn(result,
                            q[1] + Inward(q[1], 1, arg_pixels),
                            q[1] + q[3] - 1 - Inward(q[1] + q[3] - 1, image.w, arg_pixels),
                            q[2] + Inward(q[2], 1, arg_pixels),
                            q[2] + q[3] - 1 - Inward(q[2] + q[3] - 1, image.h, arg_pixels))

\* A solid square of side > 2K that touches no border was eroded by
\* K >= 1 and is left opaque on a smaller square.
C4_Witness ==
    /\ Eroded /\ image.mode = "RGBA" /\ arg_pixels >= 1
    /\ \E q \in SolidSquares(image) :
          /\ q[1] > 1 /\ q[2] > 1
          /\ q[1] + q[3] - 1 < image.w /\ q[2] + q[3] - 1 < image.h
          /\ q[3] > 2 * arg_pixels
          /\ At(result, <<q[1] + arg_pixels, q[2] + arg_pixels>>)[4] = 255
          /\ At(result, <<q[1], q[2]>>)[4] = 0

\* C8 as stated: the step standing in for the remote model returns the
\* result of the threshold method with the default threshold, both in
\* remove-bg.py (remove_background_replicate) and in post-process.py
\* (remove_background_simple).
C8_AsStated ==
    fn \in {"remove_background_replicate", "remove_background_simple"} =>
        result = remove_white_background(image, DefaultThreshold)

\* C8 amended: remove_background_replicate returns the result of the threshold
\* method with the default threshold 240; remove_background_simple applies
\* no threshold: it returns the input converted to RGBA, every pixel's R, G,
\* B and alpha as in the input.
C8_ReplicateFallsBackSimpleKeepsPixels ==
    /\ fn = "remove_background_replicate" =>
          /\ result.mode = "RGBA" /\ result.w = image.w /\ result.h = image.h
          /\ \A c \in Coords(In) :
                At(result, c) =
                    IF At(In, c)[1] + At(In, c)[2] + At(In, c)[3] > 3 * DefaultThreshold
                    THEN <<At(In, c)[1], At(In, c)[2], At(In, c)[3], 0>>
                    ELSE At(In, c)
    /\ fn = "remove_background_simple" =>
          /\ result.mode = "RGBA" /\ result.w = image.w /\ result.h = image.h
          /\ \A c \in Coords(In) : At(result, c) = At(In, c)

\* remove_background_simple returned a near-white pixel still opaque.
C8_Witness ==
    /\ fn = "remove_background_simple"
    /\ \E c \in Coords(In) :
          /\ AllAtLeast(At(In, c), DefaultThreshold + 1)
          /\ At(result, c)[4] = 255

\* C9 as stated: for the same input and the same threshold, remove_background
\* saves the same image with use_replicate=True as with use_replicate=False.
C9_AsStated ==
    ( /\ saved[TRUE] # Unsaved
      /\ saved[FALSE] # Unsaved
      /\ saved[TRUE].threshold = saved[FALSE].threshold )
        => saved[TRUE].file = saved[FALSE].file

---------------------------------------------------------------------------
(* Properties of the runs, checked under SpecRun *)

\* The run met a failure: an exception was raised, or main ended the run
\* over its arguments or a missing input.
RunFailed ==
    caught \/ uncaught \/ stdout \cap {"usage", "not_found"} # {}

\* C6 as stated: when a run of either script has ended, no exception has
\* escaped main uncaught; a run that met a failure printed a description
\* and exited with code 1, and a run that met none exited with code 0.
C6_AsStated ==
    pc = "exited" =>
        /\ ~uncaught
        /\ RunFailed => ( /\ exit_code = 1
                          /\ stdout \cap {"failed", "not_found", "usage"} # {} )
        /\ ~RunFailed => exit_code = 0

\* C7: when post_process_asset reaches its size validation with an output
\* larger than the asset type's target, the file at output_path has been
\* written and is left as it is, the warning is printed, output_path is
\* returned, no exception is raised and the run ends with exit code 0.
C7_OverBudgetIsAdvisory ==
    [][ ( /\ script = "post-process.py"
          /\ pc = "validate"
          /\ output_size > target_size(argv[4]) )
        => ( /\ output_file.format \in {"PNG", "JPEG"}
             /\ output_file' = output_file
             /\ "warning" \in stdout'
             /\ "failed" \notin stdout'
             /\ returned' = argv[3]
             /\ ~caught' /\ ~uncaught'
             /\ pc' = "exited"
             /\ exit_code' = 0 ) ]_vars

\* A run on an asset type without a target of its own ended as a success
\* with the warning printed and the output over the default target written.
C7_Witness ==
    /\ script = "post-process.py" /\ pc = "exited" /\ Len(argv) = 4
    /\ ~needs_transparency(argv[4])
    /\ argv[4] \notin {"block-texture", "background"}
    /\ output_size > 50 * 1024
    /\ "warning" \in stdout
    /\ output_file.format = "JPEG"
    /\ returned = argv[3]
    /\ exit_code = 0

=============================================================================
